---- MODULE Spec2Model ----
(***************************************************************************)
(* Session / turn persistence and the streaming turn orchestrator of the   *)
(* uptotrial backend.                                                      *)
(*                                                                         *)
(* Text is modelled as a sequence of symbols (a symbol stands for a run of *)
(* characters), so that joining chunks is concatenation and the            *)
(* substitution done by make_sse_event acts on the symbols of a value.     *)
(***************************************************************************)
EXTENDS Integers, Sequences, FiniteSets, TLC

\* The work of a behaviour: sessions created, turns flushed and upstream events
\* pulled, counted together.
MaxWork == 4

\* Python None / SQL NULL for integer keys (ids start at 1).
NULL == 0
\* session_uuid: str | None, the None case.
NoToken == <<>>

\* Two clients; each sends its next request when its previous one has ended, so
\* up to two requests are in flight at a time.
Requests == {1, 2}

VARIABLES
    sessions,             \* committed rows of table sessions: id -> row
    turns,                \* committed rows of table dialogue_turns: id -> row
    session_seq,          \* last value handed out by sessions.id autoincrement
    turn_seq,             \* last value handed out by dialogue_turns.id autoincrement
    pulled,               \* upstream events pulled so far (all streams)
    known,                \* session tokens the clients have been sent
    overlapped,           \* history: sessions on which two add_turn calls overlapped
    text,                 \* text argument of the request
    pc,                   \* position of each request's coroutine
    mode,                 \* "post_turn" | "post_turn_streamed" | "get_session_messages"
    token,                \* session_uuid argument of the request
    session,              \* the request's in-memory Session object
    dialogue_turns,       \* list returned by session.get_dialogue_turns
    messages,             \* the request's messages list
    chunks,               \* the streamed request's accumulator
    last_function_call,   \* the streamed request's cached tool name
    events,               \* upstream events the streamed request has pulled so far
    frames,               \* what the streamed request has yielded so far
    new_turn,             \* the DialogueTurn flushed but not yet committed
    exc,                  \* exception that left the request's coroutine
    request,              \* the HTTP request each client has in flight
    response,             \* the HTTP response being passed back for it
    request_seq,          \* HTTP requests received so far
    handled,              \* history: requests that reached a route handler
    now,                  \* time.time(), in whole seconds
    global_rate_limit_data,          \* RateLimitMiddleware: client IP -> count, timestamp
    correlation_id_rate_limit_data   \* RateLimitMiddleware: correlation id -> count, timestamp

httpVars == <<request, response, request_seq, handled, now, global_rate_limit_data,
              correlation_id_rate_limit_data>>

agentVars == <<sessions, turns, session_seq, turn_seq, pulled, known, overlapped, text, mode, token,
               session, dialogue_turns, messages, chunks, last_function_call, events, frames,
               new_turn>>

vars == <<agentVars, pc, exc, httpVars>>

dbVars == <<sessions, turns, session_seq, turn_seq>>
clientVars == <<known, overlapped, text, mode, token>>

(***************************************************************************)
(* Text helpers                                                            *)
(***************************************************************************)
\* str(uuid.uuid4()): a fresh token; the n-th session created gets the n-th one.
uuid4(n) == <<"uuid-" \o ToString(n)>>
\* A well-formed token that no session carries.
UnknownToken == <<"uuid-unknown">>
\* The request texts: a client numbers its questions within a conversation.
question(n) == <<"q" \o ToString(n)>>
NoText == <<>>
\* The X-Correlation-ID header of a request, one per question.
correlation_id(txt) == <<"cid">> \o txt

\* "".join(chunks)
RECURSIVE join(_)
join(cs) == IF cs = <<>> THEN <<>> ELSE Head(cs) \o join(Tail(cs))

\* value.replace("openai.com", "uptotrial.com")
replace(value) ==
    [i \in 1..Len(value) |-> IF value[i] = "openai.com" THEN "uptotrial.com" ELSE value[i]]

\* f"<event><key>{key}</key><value>{escaped_value}</value></event>"
make_sse_event(key, value) ==
    <<"<event><key>", key, "</key><value>">> \o replace(value) \o <<"</value></event>">>

\* The literal yielded on successful completion.
EndOkLiteral == <<"event: end_ok">>

(***************************************************************************)
(* Exceptions and how the application renders them                         *)
(***************************************************************************)
\* Classes of app/api/errors.py and the foreign ones that reach the handlers.
Superclasses(cls) ==
    CASE cls = "NotFoundError" -> {"NotFoundError", "DatabaseError", "Exception"}
      [] cls = "DatabaseError" -> {"DatabaseError", "Exception"}
      [] cls = "LLMError"      -> {"LLMError", "ServiceError", "Exception"}
      [] cls = "ServiceError"  -> {"ServiceError", "Exception"}
      [] cls = "APIConnectionError" -> {"APIConnectionError", "OpenAIError", "Exception"}
      [] cls \in {"CancelledError", "KeyboardInterrupt", "GeneratorExit"}
                               -> {cls, "BaseException"}
      [] OTHER                 -> {cls, "Exception"}

isinstance(cls, base) == base \in Superclasses(cls)

\* Result.scalar_one() on an empty result.
scalar_one_empty == "NoResultFound"
\* A failed flush or commit.
db_failure == "SQLAlchemyError"
\* A failed Runner.run.
agent_failure == "AgentsException"

\* register_exception_handlers: status code of the response for an exception
\* that leaves a route handler (500 when no handler is registered for it).
status_code(cls) ==
    IF isinstance(cls, "ServiceError") THEN 503
    ELSE IF isinstance(cls, "DatabaseError")
         THEN (IF isinstance(cls, "NotFoundError") THEN 404 ELSE 500)
    ELSE 500

(***************************************************************************)
(* Session.get_dialogue_turns                                              *)
(***************************************************************************)
\* A chain that stops at the head row (the recursive member left out).
turn_chain_anchor_only(id) ==
    IF id = NULL \/ id \notin DOMAIN turns THEN <<>> ELSE <<id>>

\* Rows of the recursive CTE turn_chain, in the order the recursion adds them.
RECURSIVE turn_chain(_)
turn_chain(id) ==
    IF id = NULL \/ id \notin DOMAIN turns THEN <<>>
    ELSE <<id>> \o turn_chain(turns[id].previous_turn_id)

\* All orders in which a result set may be delivered.
Orderings(rows) ==
    {p \in [1..Len(rows) -> 1..Len(rows)] : \A i, j \in 1..Len(rows) : i # j => p[i] # p[j]}

\* The final query joins dialogue_turns with turn_chain and has no ORDER BY:
\* the rows come back in an order the database chooses.
get_dialogue_turns(head_turn_id) ==
    IF head_turn_id = NULL THEN {<<>>}
    ELSE LET rows == turn_chain(head_turn_id)
         IN  {[i \in 1..Len(rows) |-> rows[p[i]]] : p \in Orderings(rows)}

RECURSIVE make_messages_from_dialogue_turns(_)
make_messages_from_dialogue_turns(dts) ==
    IF dts = <<>> THEN <<>>
    ELSE <<[role |-> "user", content |-> turns[Head(dts)].request_text],
           turns[Head(dts)].response_data>>
         \o make_messages_from_dialogue_turns(Tail(dts))

(***************************************************************************)
(* The upstream event stream and its classification                        *)
(***************************************************************************)
DeltaTexts == {<<"Found 3 trials.">>, <<"openai.com">>}
ArgumentTexts == {<<"{}">>}
ToolNames == {"list_studies", "fetch_study", "search_places", "other_tool"}
ErrorTexts == {<<"upstream failed">>}
FinalOutputs == {<<"answer">>}

Event(type, dtype, itype, name, payload) ==
    [type |-> type, data_type |-> dtype, item_type |-> itype, item_name |-> name,
     payload |-> payload]

UpstreamEvents ==
    {Event("raw_response_event", "response.output_text.delta", "", "", d) : d \in DeltaTexts}
    \union {Event("raw_response_event", "response.output_item.added", "function_call", n, <<>>)
              : n \in ToolNames}
    \union {Event("raw_response_event", "response.output_item.added", "message", "", <<>>)}
    \union {Event("raw_response_event", "response.function_call_arguments.delta", "", "", a)
              : a \in ArgumentTexts}
    \union {Event("raw_response_event", "response.function_call_arguments.done", "", "", a)
              : a \in ArgumentTexts}
    \union {Event("raw_response_event", "response.web_search_call.searching", "", "", <<>>)}
    \union {Event("raw_response_event", "response.created", "", "", <<>>)}
    \union {Event("run_item_stream_event", "", "", "", <<>>)}

Emit(item, last) == [emitted |-> TRUE, item |-> item, last_function_call |-> last]
Drop(last) == [emitted |-> FALSE, item |-> <<>>, last_function_call |-> last]

\* A loop body that forwards the payload of every event it does not skip.
classify_forwarding(chunk, last) ==
    IF chunk.data_type = "response.function_call_arguments.delta"
    THEN Drop(last)
    ELSE Emit(chunk.payload, last)

\* The body of the async for loop: what one upstream event yields and appends,
\* and the cached tool name after it.
classify(chunk, last) ==
    IF chunk.type = "raw_response_event" THEN
        IF chunk.data_type = "response.output_text.delta" THEN
            Emit(chunk.payload, last)
        ELSE IF /\ chunk.data_type = "response.output_item.added"
                /\ chunk.item_type = "function_call"
                /\ chunk.item_name = "list_studies" THEN
            Emit(<<"<tool>Searching ClinicalTrials.gov for studies...</tool>">>, "list_studies")
        ELSE IF /\ chunk.data_type = "response.output_item.added"
                /\ chunk.item_type = "function_call"
                /\ chunk.item_name = "fetch_study" THEN
            Emit(<<"<tool>Fetching a study from ClinicalTrials.gov...</tool>">>, "fetch_study")
        ELSE IF /\ chunk.data_type = "response.output_item.added"
                /\ chunk.item_type = "function_call"
                /\ chunk.item_name = "search_places" THEN
            Emit(<<"<tool>Searching locations...</tool>">>, "search_places")
        ELSE IF chunk.data_type = "response.function_call_arguments.delta" THEN
            Drop(last)
        ELSE IF chunk.data_type = "response.function_call_arguments.done" THEN
            Emit(<<"<tool_details>", last, "(">> \o chunk.payload \o <<")", "</tool_details>">>,
                 last)
        ELSE IF chunk.data_type = "response.web_search_call.searching" THEN
            Emit(<<"<tool>Searching the web for more information...</tool>">>, last)
        ELSE Drop(last)
    ELSE Drop(last)

(***************************************************************************)
(* State                                                                   *)
(***************************************************************************)
NoSession == [id |-> NULL, session_uuid |-> NoToken, head_turn_id |-> NULL]
NoTurn == [id |-> NULL]

\* No HTTP request in flight, nothing counted yet.
NoRequest == [path |-> <<>>]
NoResponse == [status_code |-> 0]
HttpInit ==
    /\ request = [r \in Requests |-> NoRequest]
    /\ response = [r \in Requests |-> NoResponse]
    /\ request_seq = 0
    /\ handled = <<>>
    /\ now = 0
    /\ global_rate_limit_data = <<>>
    /\ correlation_id_rate_limit_data = <<>>

Init ==
    /\ sessions = <<>>
    /\ turns = <<>>
    /\ session_seq = 0
    /\ turn_seq = 0
    /\ pulled = 0
    /\ known = {}
    /\ overlapped = {}
    /\ text = [r \in Requests |-> NoText]
    /\ pc = [r \in Requests |-> "idle"]
    /\ mode = [r \in Requests |-> "none"]
    /\ token = [r \in Requests |-> NoToken]
    /\ session = [r \in Requests |-> NoSession]
    /\ dialogue_turns = [r \in Requests |-> <<>>]
    /\ messages = [r \in Requests |-> <<>>]
    /\ chunks = [r \in Requests |-> <<>>]
    /\ last_function_call = [r \in Requests |-> "Unknown"]
    /\ events = [r \in Requests |-> <<>>]
    /\ frames = [r \in Requests |-> <<>>]
    /\ new_turn = [r \in Requests |-> NoTurn]
    /\ exc = [r \in Requests |-> "none"]
    /\ HttpInit

InFlight(r) == pc[r] \notin {"idle", "done", "raised"}

\* A coroutine that has ended (returned or raised) hands its outcome to the
\* transport before any other coroutine is resumed: ending touches no shared
\* state, so nothing is lost by taking it at once.
Settled == \A q \in Requests : pc[q] \notin {"done", "raised"}
At(r, p) == pc[r] = p /\ Settled

\* A client sends a request when its previous one has ended. The clients are
\* interchangeable: the second one is used only while the first is busy.
MayStart(r) ==
    /\ At(r, "idle")
    /\ r = 2 => InFlight(1)

\* Work done so far, and the turns the requests in flight will still flush.
Work == session_seq + turn_seq + pulled
Appending ==
    {r \in Requests : pc[r] \in {"run", "yield_session_uuid", "stream", "add_turn"}}
MayWork(n) == Work + Cardinality(Appending) + n <= MaxWork

\* A new coroutine for client r, with its arguments.
Begin(r, m, tok) ==
    /\ mode' = [mode EXCEPT ![r] = m]
    /\ token' = [token EXCEPT ![r] = tok]
    /\ UNCHANGED <<chunks, last_function_call, events, frames, new_turn>>

\* History: another add_turn on session id is between its flush and its commit.
AppendInProgress(r, id) ==
    \E q \in Requests \ {r} : session[q].id = id /\ pc[q] = "commit"

\* select(Session).where(Session.session_uuid == session_uuid)
select_session(tok) == {id \in DOMAIN sessions : sessions[id].session_uuid = tok}

user_message(txt) == [role |-> "user", content |-> txt]

(***************************************************************************)
(* post_turn / post_turn_streamed: session resolution and history load     *)
(***************************************************************************)
\* session_uuid is None: Session(session_uuid=str(uuid.uuid4())); db.add; db.commit
CreateSession(r, next) ==
    LET id == session_seq + 1 IN
    /\ MayWork(2)
    /\ session_seq' = id
    /\ \/ /\ sessions' = sessions @@ (id :> [session_uuid |-> uuid4(id), head_turn_id |-> NULL])
          /\ session' = [session EXCEPT ![r] =
                            [id |-> id, session_uuid |-> uuid4(id), head_turn_id |-> NULL]]
          /\ pc' = [pc EXCEPT ![r] = next]
          /\ exc' = [exc EXCEPT ![r] = "none"]
       \/ /\ sessions' = sessions
          /\ session' = [session EXCEPT ![r] = NoSession]
          /\ pc' = [pc EXCEPT ![r] = "raised"]
          /\ exc' = [exc EXCEPT ![r] = db_failure]
    /\ dialogue_turns' = [dialogue_turns EXCEPT ![r] = <<>>]
    /\ UNCHANGED overlapped

\* session_uuid given: select, scalar_one, get_dialogue_turns
LoadSession(r, tok, next) ==
    /\ \/ /\ select_session(tok) = {}
          /\ session' = [session EXCEPT ![r] = NoSession]
          /\ dialogue_turns' = [dialogue_turns EXCEPT ![r] = <<>>]
          /\ pc' = [pc EXCEPT ![r] = "raised"]
          /\ exc' = [exc EXCEPT ![r] = scalar_one_empty]
          /\ UNCHANGED overlapped
       \/ \E id \in select_session(tok) :
          \E dts \in get_dialogue_turns(sessions[id].head_turn_id) :
            /\ session' = [session EXCEPT ![r] =
                              [id |-> id, session_uuid |-> sessions[id].session_uuid,
                               head_turn_id |-> sessions[id].head_turn_id]]
            /\ dialogue_turns' = [dialogue_turns EXCEPT ![r] = dts]
            /\ pc' = [pc EXCEPT ![r] = next]
            /\ exc' = [exc EXCEPT ![r] = "none"]
            /\ UNCHANGED overlapped
    /\ UNCHANGED <<sessions, session_seq>>

\* messages = make_messages_from_dialogue_turns(dialogue_turns); messages.append(user)
ResolveSession(r, tok, m, next) ==
    /\ MayStart(r)
    /\ MayWork(1)
    /\ Begin(r, m, tok)
    /\ IF tok = NoToken THEN CreateSession(r, next) ELSE LoadSession(r, tok, next)
    /\ text' = [text EXCEPT ![r] = question(Len(dialogue_turns'[r]) + 1)]
    /\ messages' = [messages EXCEPT ![r] =
           IF pc'[r] = "raised" THEN <<>>
           ELSE Append(make_messages_from_dialogue_turns(dialogue_turns'[r]),
                       user_message(text'[r]))]
    /\ UNCHANGED <<turns, turn_seq, pulled, known>>
    /\ UNCHANGED httpVars

\* post_turn, up to the call of Runner.run
PostTurnStart(r) ==
    \E tok \in {NoToken, UnknownToken} \union known :
        ResolveSession(r, tok, "post_turn", "run")

\* post_turn_streamed, up to the first yield
PostTurnStreamedStart(r) ==
    \E tok \in {NoToken, UnknownToken} \union known :
        ResolveSession(r, tok, "post_turn_streamed", "yield_session_uuid")

\* get_session_messages, the whole handler
GetSessionMessages(r) ==
    \E tok \in {UnknownToken} \union known :
        /\ MayStart(r)
        /\ Begin(r, "get_session_messages", tok)
        /\ text' = [text EXCEPT ![r] = NoText]
        /\ LoadSession(r, tok, "done")
        /\ messages' = [messages EXCEPT ![r] =
               make_messages_from_dialogue_turns(dialogue_turns'[r])]
        /\ UNCHANGED <<turns, turn_seq, pulled, known>>
        /\ UNCHANGED httpVars

\* A failed run that is swallowed, post_turn going on to add_turn.
after_run_failure_swallowed == "add_turn"

\* Where post_turn goes when Runner.run raises: nothing catches it.
after_run_failure == "raised"

\* post_turn: Runner.run returns or raises
RunAgent(r) ==
    /\ At(r, "run")
    /\ \/ \E out \in FinalOutputs :
            /\ messages' = [messages EXCEPT ![r] =
                               Append(@, [role |-> "assistant", content |-> out])]
            /\ pc' = [pc EXCEPT ![r] = "add_turn"]
            /\ UNCHANGED exc
       \/ /\ pc' = [pc EXCEPT ![r] = after_run_failure]
          /\ exc' = [exc EXCEPT ![r] = agent_failure]
          /\ UNCHANGED messages
    /\ UNCHANGED <<dbVars, clientVars, pulled, session, dialogue_turns, chunks,
                   last_function_call, events, frames, new_turn>>
    /\ UNCHANGED httpVars

(***************************************************************************)
(* post_turn_streamed: the generator body                                  *)
(***************************************************************************)
\* A consumer that is handed the newest frame first.
Yield_newest_first(r, frame) == frames' = [frames EXCEPT ![r] = <<frame>> \o @]

Yield(r, frame) == frames' = [frames EXCEPT ![r] = Append(@, frame)]

\* The first frame built from the argument as received.
session_uuid_frame_of_argument(r) == make_sse_event("session_uuid", token[r])

\* The first frame carries the local session_uuid, reassigned when a session
\* was created.
session_uuid_frame(r) == make_sse_event("session_uuid", session[r].session_uuid)

\* The generator going straight to the last yield.
after_stream_end_without_add_turn == "yield_end_ok"
\* The except block without its return.
after_end_error_without_return == "add_turn"

\* Where the generator goes when the async for loop ends normally.
after_stream_end == "add_turn"
\* Where the generator goes after the end_error frame (return).
after_end_error == "done"

\* The except block with its yields in another order.
error_frames_detail_first(e) ==
    <<make_sse_event("data", e),
      make_sse_event("event", <<"error">>),
      make_sse_event("event", <<"end_error">>)>>

\* The three yields of the except block, e being str(e).
error_frames(e) ==
    <<make_sse_event("event", <<"error">>),
      make_sse_event("data", e),
      make_sse_event("event", <<"end_error">>)>>

\* yield make_sse_event("session_uuid", session_uuid)
YieldSessionUuid(r) ==
    /\ At(r, "yield_session_uuid")
    /\ Yield(r, session_uuid_frame(r))
    /\ known' = known \union {session[r].session_uuid}
    /\ pc' = [pc EXCEPT ![r] = "stream"]
    /\ UNCHANGED <<dbVars, pulled, overlapped, text, mode, token, session, dialogue_turns,
                   messages, chunks, last_function_call, events, new_turn, exc>>
    /\ UNCHANGED httpVars

\* One iteration of async for chunk in streamed_response.stream_events()
StreamEvent(r) ==
    /\ At(r, "stream")
    /\ MayWork(1)
    /\ pulled' = pulled + 1
    /\ \E chunk \in UpstreamEvents :
        LET c == classify(chunk, last_function_call[r]) IN
        /\ last_function_call' = [last_function_call EXCEPT ![r] = c.last_function_call]
        /\ events' = [events EXCEPT ![r] = Append(@, chunk)]
        /\ IF c.emitted
           THEN /\ Yield(r, make_sse_event("data", c.item))
                /\ chunks' = [chunks EXCEPT ![r] = Append(@, c.item)]
           ELSE UNCHANGED <<frames, chunks>>
    /\ UNCHANGED <<dbVars, clientVars, pc, session, dialogue_turns, messages, new_turn, exc>>
    /\ UNCHANGED httpVars

\* stream_events() raises: except Exception as e: the three yields and return.
\* The frames go to one consumer and touch nothing shared, so they are taken
\* together.
StreamRaise(r) ==
    /\ At(r, "stream")
    /\ \E e \in ErrorTexts :
        /\ exc' = [exc EXCEPT ![r] = e]
        /\ frames' = [frames EXCEPT ![r] = @ \o error_frames(e)]
    /\ pc' = [pc EXCEPT ![r] = after_end_error]
    /\ UNCHANGED <<dbVars, clientVars, pulled, session, dialogue_turns, messages, chunks,
                   last_function_call, events, new_turn>>
    /\ UNCHANGED httpVars

\* stream_events() is exhausted
StreamEnd(r) ==
    /\ At(r, "stream")
    /\ pc' = [pc EXCEPT ![r] = after_stream_end]
    /\ UNCHANGED <<dbVars, clientVars, pulled, session, dialogue_turns, messages, chunks,
                   last_function_call, events, frames, new_turn, exc>>
    /\ UNCHANGED httpVars

\* yield "event: end_ok"; return
YieldEndOk(r) ==
    /\ At(r, "yield_end_ok")
    /\ Yield(r, EndOkLiteral)
    /\ pc' = [pc EXCEPT ![r] = "done"]
    /\ UNCHANGED <<dbVars, clientVars, pulled, session, dialogue_turns, messages, chunks,
                   last_function_call, events, new_turn, exc>>
    /\ UNCHANGED httpVars

(***************************************************************************)
(* Session.add_turn                                                        *)
(***************************************************************************)
\* The response record handed to add_turn.
output_message(r) ==
    IF mode[r] = "post_turn_streamed"
    THEN [role |-> "assistant", content |-> join(chunks[r])]
    ELSE messages[r][Len(messages[r])]

\* A turn constructed without its link to the head.
DialogueTurn_without_previous(r, id) ==
    [id |-> id,
     session_id |-> session[r].id,
     correlation_id |-> correlation_id(text[r]),
     request_text |-> text[r],
     response_data |-> output_message(r),
     previous_turn_id |-> NULL]

\* A turn linked to the row inserted last, whatever its session.
DialogueTurn_after_last_inserted(r, id) ==
    [id |-> id,
     session_id |-> session[r].id,
     correlation_id |-> correlation_id(text[r]),
     request_text |-> text[r],
     response_data |-> output_message(r),
     previous_turn_id |-> turn_seq]

\* DialogueTurn(session_id=self.id, ..., previous_turn_id=self.head_turn_id)
DialogueTurn(r, id) ==
    [id |-> id,
     session_id |-> session[r].id,
     correlation_id |-> correlation_id(text[r]),
     request_text |-> text[r],
     response_data |-> output_message(r),
     previous_turn_id |-> session[r].head_turn_id]

\* A flush that other transactions can read.
visible_after_flush_uncommitted(row) == turns @@ (row.id :> row)

\* Rows of dialogue_turns other transactions see once a turn has been flushed.
visible_after_flush(row) == turns

\* The head taken from the last id the table handed out.
new_head_turn_id_last_inserted(row) == turn_seq

\* The head left where the new turn's link points.
new_head_turn_id_unmoved(row) == row.previous_turn_id

\* self.head_turn_id = new_turn.id
new_head_turn_id(row) == row.id

\* A caller that ends right after add_turn.
after_add_turn_without_end_ok(r) == "done"

\* Where the caller continues after add_turn returned.
after_add_turn(r) == IF mode[r] = "post_turn_streamed" THEN "yield_end_ok" ELSE "done"

\* new_turn = DialogueTurn(...); db.add(new_turn); await db.flush()
AddTurnFlush(r) ==
    /\ At(r, "add_turn")
    /\ \/ LET row == DialogueTurn(r, turn_seq + 1) IN
          /\ turn_seq' = turn_seq + 1
          /\ new_turn' = [new_turn EXCEPT ![r] = row]
          /\ turns' = visible_after_flush(row)
          /\ pc' = [pc EXCEPT ![r] = "commit"]
          /\ UNCHANGED exc
       \/ /\ pc' = [pc EXCEPT ![r] = "raised"]
          /\ exc' = [exc EXCEPT ![r] = db_failure]
          /\ UNCHANGED <<turn_seq, new_turn, turns>>
    /\ overlapped' = IF AppendInProgress(r, session[r].id)
                      THEN overlapped \union {session[r].id}
                      ELSE overlapped
    /\ UNCHANGED <<sessions, session_seq, known, text, mode, token, pulled, session,
                   dialogue_turns, messages, chunks, last_function_call, events, frames>>
    /\ UNCHANGED httpVars

\* self.head_turn_id = new_turn.id; db.add(self); await db.commit(); return
AddTurnCommit(r) ==
    /\ At(r, "commit")
    /\ session' = [session EXCEPT ![r].head_turn_id = new_head_turn_id(new_turn[r])]
    /\ \/ /\ turns' = turns @@ (new_turn[r].id :> new_turn[r])
          /\ sessions' = [sessions EXCEPT ![session[r].id].head_turn_id =
                                              new_head_turn_id(new_turn[r])]
          /\ pc' = [pc EXCEPT ![r] = after_add_turn(r)]
          /\ known' = IF mode[r] = "post_turn"
                      THEN known \union {session[r].session_uuid} ELSE known
          /\ UNCHANGED exc
       \/ /\ pc' = [pc EXCEPT ![r] = "raised"]
          /\ exc' = [exc EXCEPT ![r] = db_failure]
          /\ UNCHANGED <<turns, sessions, known>>
    /\ UNCHANGED <<session_seq, turn_seq, pulled, overlapped, text, mode, token, dialogue_turns,
                   messages, chunks, last_function_call, events, frames, new_turn>>
    /\ UNCHANGED httpVars

\* The coroutine of client r has ended: its outcome is delivered and its locals
\* are gone.
Return(r) ==
    /\ pc[r] \in {"done", "raised"}
    /\ pc' = [pc EXCEPT ![r] = "idle"]
    /\ mode' = [mode EXCEPT ![r] = "none"]
    /\ token' = [token EXCEPT ![r] = NoToken]
    /\ text' = [text EXCEPT ![r] = NoText]
    /\ session' = [session EXCEPT ![r] = NoSession]
    /\ dialogue_turns' = [dialogue_turns EXCEPT ![r] = <<>>]
    /\ messages' = [messages EXCEPT ![r] = <<>>]
    /\ chunks' = [chunks EXCEPT ![r] = <<>>]
    /\ last_function_call' = [last_function_call EXCEPT ![r] = "Unknown"]
    /\ events' = [events EXCEPT ![r] = <<>>]
    /\ frames' = [frames EXCEPT ![r] = <<>>]
    /\ new_turn' = [new_turn EXCEPT ![r] = NoTurn]
    /\ exc' = [exc EXCEPT ![r] = "none"]
    /\ UNCHANGED <<dbVars, pulled, known, overlapped>>
    /\ UNCHANGED httpVars

Next ==
    \E r \in Requests :
        \/ Return(r)
        \/ PostTurnStart(r)
        \/ PostTurnStreamedStart(r)
        \/ GetSessionMessages(r)
        \/ RunAgent(r)
        \/ YieldSessionUuid(r)
        \/ StreamEvent(r)
        \/ StreamRaise(r)
        \/ StreamEnd(r)
        \/ AddTurnFlush(r)
        \/ AddTurnCommit(r)
        \/ YieldEndOk(r)

Spec == Init /\ [][Next]_vars

(***************************************************************************)
(* Reading a stream, as its consumer does                                  *)
(***************************************************************************)
Streamed(r) == mode[r] = "post_turn_streamed"

IsFrame(f, key) ==
    /\ Len(f) >= 4
    /\ f[1] = "<event><key>"
    /\ f[2] = key
    /\ f[3] = "</key><value>"
    /\ f[Len(f)] = "</value></event>"

IsEndOk(f) == f = EndOkLiteral \/ f = make_sse_event("event", <<"end_ok">>)
IsError(f) == f = make_sse_event("event", <<"error">>)
IsEndError(f) == f = make_sse_event("event", <<"end_error">>)

Positions(fs, P(_)) == {i \in 1..Len(fs) : P(fs[i])}

\* The two terminal outcomes of a stream.
EndedOk(r) == Positions(frames[r], IsEndOk) # {}
EndedError(r) ==
    \/ Positions(frames[r], IsError) # {}
    \/ Positions(frames[r], IsEndError) # {}
ErrorPair(r) ==
    /\ Cardinality(Positions(frames[r], IsError)) = 1
    /\ Cardinality(Positions(frames[r], IsEndError)) = 1
    /\ \A i \in Positions(frames[r], IsError), j \in Positions(frames[r], IsEndError) : i < j

\* Committed turns of a session.
TurnsOf(sid) == {t \in DOMAIN turns : turns[t].session_id = sid}
Range(seq) == {seq[i] : i \in 1..Len(seq)}

C2_RaiseAppendsNothing ==
    [][\A r \in Requests :
          (EndedError(r) \/ EndedError(r)') =>
              /\ turns' = turns
              /\ sessions' = sessions
              /\ new_turn[r] = NoTurn /\ new_turn'[r] = NoTurn
              /\ pc'[r] \in {"done", "idle"}
              /\ \A id \in DOMAIN sessions :
                    get_dialogue_turns(sessions[id].head_turn_id)' =
                        get_dialogue_turns(sessions[id].head_turn_id)]_vars

\* The upstream raised after an emitted event, on a session that has history.
C2_Witness ==
    \E r \in Requests :
        /\ Streamed(r) /\ EndedError(r)
        /\ Len(frames[r]) >= 5
        /\ session[r].head_turn_id # NULL
        /\ sessions[session[r].id].head_turn_id = session[r].head_turn_id

(***************************************************************************)
(* C3  end_ok follows the commit                                           *)
(***************************************************************************)
\* C3 as stated: in every state where the end_ok frame has been emitted the
\* new turn is the session's head.
C3_EndOkTurnIsHead ==
    \A r \in Requests :
        (Streamed(r) /\ EndedOk(r)) =>
            sessions[session[r].id].head_turn_id = new_turn[r].id

\* C3 amended: end_ok is emitted only after add_turn committed the new turn:
\* the commit stored the turn and made it the session's head in one step, and
\* where end_ok has been emitted the turn is stored for the session and the
\* head is that turn, or the turn of another request that committed on the
\* same session since. When add_turn fails no end_ok is emitted and the
\* database exception leaves the generator.
C3_EndOkAfterCommit ==
    /\ [](\A r \in Requests :
            Streamed(r) =>
                /\ (EndedOk(r) \/ pc[r] = "yield_end_ok") =>
                      /\ new_turn[r].id \in DOMAIN turns
                      /\ turns[new_turn[r].id] = new_turn[r]
                      /\ new_turn[r].session_id = session[r].id
                      /\ sessions[session[r].id].head_turn_id \in TurnsOf(session[r].id)
                      /\ session[r].head_turn_id = new_turn[r].id
                /\ (pc[r] = "raised" /\ frames[r] # <<>>) =>
                      /\ ~EndedOk(r)
                      /\ exc[r] = db_failure
                      /\ new_turn[r].id \notin DOMAIN turns)
    /\ [][\A r \in Requests :
            (Streamed(r) /\ pc'[r] = "yield_end_ok" /\ pc[r] # "yield_end_ok") =>
                /\ pc[r] = "commit"
                /\ sessions'[session[r].id].head_turn_id = new_turn[r].id
                /\ new_turn[r].id \in DOMAIN turns' \ DOMAIN turns]_vars

\* end_ok emitted for a turn that follows an earlier one and is the head.
C3_Witness ==
    \E r \in Requests :
        /\ Streamed(r) /\ EndedOk(r)
        /\ chunks[r] # <<>>
        /\ sessions[session[r].id].head_turn_id = new_turn[r].id

(***************************************************************************)
(* C4  Order of the reconstructed history                                  *)
(***************************************************************************)
Chronological(dts) ==
    /\ dts # <<>> => turns[dts[1]].previous_turn_id = NULL
    /\ \A i \in 1..(Len(dts) - 1) : turns[dts[i + 1]].previous_turn_id = dts[i]

\* C4: the list a request gets from get_dialogue_turns is oldest first: its
\* first turn has no previous turn, each turn is the previous turn of the next
\* one, and its last turn is the head the session had when it was loaded.
C4_OldestFirst ==
    \A r \in Requests :
        (pc[r] \notin {"idle", "raised"} /\ dialogue_turns[r] # <<>>) =>
            /\ Chronological(dialogue_turns[r])
            /\ mode[r] = "get_session_messages" =>
                  dialogue_turns[r][Len(dialogue_turns[r])] = session[r].head_turn_id

(***************************************************************************)
(* C5  Size of the reconstructed history                                   *)
(***************************************************************************)
\* get_session_messages has just read the history of its session.
HistoryRead(r) ==
    mode[r] = "get_session_messages" /\ pc[r] = "done"

ExactHistory(r) ==
    /\ Len(dialogue_turns[r]) = Cardinality(TurnsOf(session[r].id))
    /\ Range(dialogue_turns[r]) = TurnsOf(session[r].id)

\* No two stored turns of the session were built on the same head.
NoFork(sid) ==
    \A t, u \in TurnsOf(sid) :
        turns[t].previous_turn_id = turns[u].previous_turn_id => t = u

Commits(r) == pc[r] = "commit" /\ pc'[r] \in {"yield_end_ok", "done"}

C7_AddTurnAtomic ==
    /\ [](\A r \in Requests :
            (pc[r] = "commit" \/ pc[r] = "raised") =>
                /\ new_turn[r].id \notin DOMAIN turns
                /\ \A sid \in DOMAIN sessions :
                      new_turn[r] # NoTurn => sessions[sid].head_turn_id # new_turn[r].id)
    /\ [][/\ turns' # turns =>
                \E r \in Requests :
                    /\ Commits(r)
                    /\ turns' = turns @@ (new_turn[r].id :> new_turn[r])
                    /\ sessions' = [sessions EXCEPT ![session[r].id].head_turn_id =
                                                        new_turn[r].id]
          /\ \A sid \in DOMAIN sessions :
                sessions'[sid].head_turn_id # sessions[sid].head_turn_id =>
                    /\ sessions'[sid].head_turn_id \in DOMAIN turns' \ DOMAIN turns
                    /\ turns'[sessions'[sid].head_turn_id].session_id = sid
          /\ \A r \in Requests :
                (pc[r] \in {"add_turn", "commit"} /\ pc'[r] = "raised") =>
                    turns' = turns /\ sessions' = sessions]_vars

\* A commit failed after the flush: the flushed turn is not stored.
C7_Witness ==
    \E r \in Requests :
        /\ pc[r] = "raised"
        /\ new_turn[r] # NoTurn
        /\ session[r].head_turn_id = new_turn[r].id
        /\ new_turn[r].id \notin DOMAIN turns
        /\ sessions[session[r].id].head_turn_id # new_turn[r].id

(***************************************************************************)
(* C8  The head belongs to its session                                     *)
(***************************************************************************)
\* C8: in every state each stored session's head_turn_id is NULL or the id of
\* a stored turn whose session_id is that session.
C8_HeadBelongsToSession ==
    \A sid \in DOMAIN sessions :
        \/ sessions[sid].head_turn_id = NULL
        \/ /\ sessions[sid].head_turn_id \in DOMAIN turns
           /\ turns[sessions[sid].head_turn_id].session_id = sid

\* Two sessions, each with a head.
C8_Witness ==
    \E a, b \in DOMAIN sessions :
        /\ a # b
        /\ sessions[a].head_turn_id # NULL
        /\ sessions[b].head_turn_id # NULL

(***************************************************************************)
(* C9  Unknown session token                                               *)
(***************************************************************************)
\* C9: a request whose token matches no stored session fails with
\* NotFoundError, which is rendered as the client error 404, and creates no
\* session and no turn.
C9_UnknownTokenNotFound ==
    \A r \in Requests :
        (token[r] = UnknownToken /\ pc[r] # "idle") =>
            /\ pc[r] = "raised"
            /\ isinstance(exc[r], "NotFoundError")
            /\ status_code(exc[r]) = 404
            /\ session[r] = NoSession /\ new_turn[r] = NoTurn

(***************************************************************************)
(* C10  The first frame is the session token                               *)
(***************************************************************************)
IsSessionUuid(f) == IsFrame(f, "session_uuid")

LastFrames(fs, n) == SubSeq(fs, Len(fs) - n + 1, Len(fs))

\* C11: when the upstream stream raises, the stream ends with the event frame
\* error, one data frame carrying str(e) and the event frame end_error,
\* consecutively and in this order, and no frame follows end_error.
C11_ErrorFramesLast ==
    /\ [](\A r \in Requests :
            (Streamed(r) /\ EndedError(r)) =>
                /\ Len(frames[r]) >= 4
                /\ exc[r] \in ErrorTexts
                /\ LastFrames(frames[r], 3) =
                       <<make_sse_event("event", <<"error">>),
                         make_sse_event("data", exc[r]),
                         make_sse_event("event", <<"end_error">>)>>
                /\ IsFrame(frames[r][Len(frames[r]) - 1], "data")
                /\ Positions(frames[r], IsError) = {Len(frames[r]) - 2}
                /\ Positions(frames[r], IsEndError) = {Len(frames[r])})
    /\ [][\A r \in Requests :
            EndedError(r) => (frames'[r] = frames[r] \/ pc'[r] = "idle")]_vars

\* The upstream raised after a tool invocation had started.
C11_Witness ==
    \E r \in Requests :
        /\ Streamed(r) /\ EndedError(r)
        /\ last_function_call[r] # "Unknown"
        /\ Len(frames[r]) = 5

(***************************************************************************)
(* C12  The streamed transcript and the stored response                    *)
(***************************************************************************)
\* What a consumer reads as the payload of a frame: the text between the
\* value tags.
Payload(f) == SubSeq(f, 4, Len(f) - 1)

\* The payloads of the data frames of a stream, concatenated in order.
RECURSIVE Transcript(_)
Transcript(fs) ==
    IF fs = <<>> THEN <<>>
    ELSE (IF IsFrame(Head(fs), "data") THEN Payload(Head(fs)) ELSE <<>>)
         \o Transcript(Tail(fs))

\* C12: for a streamed turn that completed, the payloads of its data frames,
\* concatenated in order, are the content of the response record stored for
\* the turn.
C12_TranscriptIsStoredResponse ==
    \A r \in Requests :
        (Streamed(r) /\ EndedOk(r)) =>
            /\ new_turn[r].id \in DOMAIN turns
            /\ Transcript(frames[r]) = turns[new_turn[r].id].response_data.content

(***************************************************************************)
(* C13  get_session_messages twice                                         *)
(***************************************************************************)
\* Every list a call of get_session_messages can return for a stored session.
SessionMessages(sid) ==
    {make_messages_from_dialogue_turns(dts) :
        dts \in get_dialogue_turns(sessions[sid].head_turn_id)}

\* C13: two calls of get_session_messages for a session with no commit between
\* them return the same list: the list a call has returned is the only one a
\* call made on the same stored turns and head can return.
C13_SameMessagesTwice ==
    \A r \in Requests :
        HistoryRead(r) => SessionMessages(session[r].id) = {messages[r]}

(***************************************************************************)
(* C14  Shape of the message list                                          *)
(***************************************************************************)
Reverse(seq) == [i \in 1..Len(seq) |-> seq[Len(seq) + 1 - i]]

\* The turns reachable from a head, oldest first.
ChronologicalTurns(head) == Reverse(turn_chain(head))

\* For the k-th turn, entry 2k-1 is the user message with its request text and
\* entry 2k its stored response record.
AlternatingMessages(ms, dts) ==
    /\ Len(ms) = 2 * Len(dts)
    /\ \A k \in 1..Len(dts) :
          /\ ms[2 * k - 1] = user_message(turns[dts[k]].request_text)
          /\ ms[2 * k] = turns[dts[k]].response_data
          /\ ms[2 * k].role = "assistant"

\* C14: get_session_messages returns, for a session with n turns, 2n entries
\* alternating user and assistant in chronological order of the turns, and
\* the blocking post_turn that stored the n-th turn returned that same list.
C14_AlternatingMessages ==
    \A r \in Requests :
        /\ HistoryRead(r) =>
              AlternatingMessages(messages[r],
                                  ChronologicalTurns(sessions[session[r].id].head_turn_id))
        /\ (mode[r] = "post_turn" /\ pc[r] = "done") =>
              AlternatingMessages(messages[r], ChronologicalTurns(new_turn[r].id))

(***************************************************************************)
(* Session.get_dialogue_turns on an arbitrary table                        *)
(*                                                                         *)
(* The recursive CTE evaluated as the database evaluates it, one iteration *)
(* at a time, on tables whose previous_turn_id pointers are arbitrary      *)
(* (chains, dangling pointers, self-loops and longer cycles).              *)
(***************************************************************************)
\* Rows of the table under the walk.
MaxChainTurns == 3
\* Rows the walk is followed for.
MaxHops == 5

ChainRow(id, prev) ==
    [id |-> id,
     session_id |-> 1,
     correlation_id |-> correlation_id(question(id)),
     request_text |-> question(id),
     response_data |-> [role |-> "assistant", content |-> <<"answer">>],
     previous_turn_id |-> prev]

ChainTables ==
    {[id \in 1..MaxChainTurns |-> ChainRow(id, prev[id])] :
        prev \in [1..MaxChainTurns -> 0..MaxChainTurns]}

\* The request that walks: client 1 has loaded session 1 and calls
\* get_dialogue_turns.
ChainInit ==
    /\ turns \in ChainTables
    /\ \E head \in 0..MaxChainTurns :
          /\ sessions = (1 :> [session_uuid |-> uuid4(1), head_turn_id |-> head])
          /\ session = [r \in Requests |->
                           IF r = 1
                           THEN [id |-> 1, session_uuid |-> uuid4(1), head_turn_id |-> head]
                           ELSE NoSession]
    /\ session_seq = 1
    /\ turn_seq = MaxChainTurns
    /\ pulled = 0
    /\ known = {uuid4(1)}
    /\ overlapped = {}
    /\ text = [r \in Requests |-> NoText]
    /\ pc = [r \in Requests |-> IF r = 1 THEN "get_dialogue_turns" ELSE "idle"]
    /\ mode = [r \in Requests |-> IF r = 1 THEN "get_session_messages" ELSE "none"]
    /\ token = [r \in Requests |-> IF r = 1 THEN uuid4(1) ELSE NoToken]
    /\ dialogue_turns = [r \in Requests |-> <<>>]
    /\ messages = [r \in Requests |-> <<>>]
    /\ chunks = [r \in Requests |-> <<>>]
    /\ last_function_call = [r \in Requests |-> "Unknown"]
    /\ events = [r \in Requests |-> <<>>]
    /\ frames = [r \in Requests |-> <<>>]
    /\ new_turn = [r \in Requests |-> NoTurn]
    /\ exc = [r \in Requests |-> "none"]
    /\ HttpInit

chainFrame ==
    <<sessions, turns, session_seq, turn_seq, pulled, known, overlapped, text, mode, token,
      session, messages, chunks, last_function_call, events, frames, new_turn, exc>>

\* if self.head_turn_id is None: return []; else the non-recursive term:
\* select(DialogueTurn).where(DialogueTurn.id == self.head_turn_id)
TurnChainBase(r) ==
    /\ pc[r] = "get_dialogue_turns"
    /\ IF session[r].head_turn_id = NULL
       THEN /\ dialogue_turns' = [dialogue_turns EXCEPT ![r] = <<>>]
            /\ pc' = [pc EXCEPT ![r] = "done"]
       ELSE /\ dialogue_turns' = [dialogue_turns EXCEPT ![r] = <<session[r].head_turn_id>>]
            /\ pc' = [pc EXCEPT ![r] = "turn_chain"]
    /\ UNCHANGED chainFrame
    /\ UNCHANGED httpVars

\* The row the recursive term adds for the last row of the working table:
\* select(dt).join(tc, dt.id == tc.c.previous_turn_id)
recursive_query(rows) ==
    {id \in DOMAIN turns : id = turns[rows[Len(rows)]].previous_turn_id}

\* One iteration of the recursive term (UNION ALL keeps every row it finds).
TurnChainStep(r) ==
    /\ pc[r] = "turn_chain"
    /\ Len(dialogue_turns[r]) < MaxHops
    /\ \E id \in recursive_query(dialogue_turns[r]) :
          dialogue_turns' = [dialogue_turns EXCEPT ![r] = Append(@, id)]
    /\ UNCHANGED <<chainFrame, pc>>
    /\ UNCHANGED httpVars

\* The recursive term finds no row: the CTE is complete, the final query
\* returns its rows (in some order) and get_dialogue_turns returns.
TurnChainEnd(r) ==
    /\ pc[r] = "turn_chain"
    /\ recursive_query(dialogue_turns[r]) = {}
    /\ \E p \in Orderings(dialogue_turns[r]) :
          dialogue_turns' = [dialogue_turns EXCEPT ![r] =
                                [i \in 1..Len(@) |-> @[p[i]]]]
    /\ pc' = [pc EXCEPT ![r] = "done"]
    /\ UNCHANGED chainFrame
    /\ UNCHANGED httpVars

ChainNext ==
    \E r \in Requests :
        \/ TurnChainBase(r)
        \/ TurnChainStep(r)
        \/ TurnChainEnd(r)

SpecChain == ChainInit /\ [][ChainNext]_vars

(***************************************************************************)
(* C15  A corrupt chain                                                    *)
(***************************************************************************)
\* C15: get_dialogue_turns always terminates: a walk never collects more rows
\* than there are turns; when the pointers reachable from the head contain a
\* cycle it has stopped by then and failed with CorruptChain.
C15_CorruptChainStops ==
    \A r \in Requests :
        /\ Len(dialogue_turns[r]) <= Cardinality(DOMAIN turns)
        /\ (pc[r] = "turn_chain" /\ Len(dialogue_turns[r]) = Cardinality(DOMAIN turns)) =>
              recursive_query(dialogue_turns[r]) = {}
        /\ pc[r] = "raised" => exc[r] = "CorruptChain"

(***************************************************************************)
(* make_sse_event on arbitrary values                                      *)
(***************************************************************************)
\* Symbols of a value.
MaxValueLen == 2

FrameSymbols ==
    {"a", "<", ">", "&", "openai.com", "uptotrial.com", "</value></event>"}
FrameValues == UNION {[1..n -> FrameSymbols] : n \in 0..MaxValueLen}
FrameKeys == {"data", "event"}

\* Client 1 is about to yield make_sse_event(key, value) for an arbitrary
\* value, held as its only chunk.
FrameInit ==
    /\ sessions = <<>>
    /\ turns = <<>>
    /\ session_seq = 0
    /\ turn_seq = 0
    /\ pulled = 0
    /\ known = {}
    /\ overlapped = {}
    /\ text = [r \in Requests |-> NoText]
    /\ pc = [r \in Requests |-> IF r = 1 THEN "make_sse_event" ELSE "idle"]
    /\ mode = [r \in Requests |-> IF r = 1 THEN "post_turn_streamed" ELSE "none"]
    /\ token = [r \in Requests |-> NoToken]
    /\ session = [r \in Requests |-> NoSession]
    /\ dialogue_turns = [r \in Requests |-> <<>>]
    /\ messages = [r \in Requests |-> <<>>]
    /\ \E value \in FrameValues :
          chunks = [r \in Requests |-> IF r = 1 THEN <<value>> ELSE <<>>]
    /\ last_function_call = [r \in Requests |-> "Unknown"]
    /\ events = [r \in Requests |-> <<>>]
    /\ frames = [r \in Requests |-> <<>>]
    /\ new_turn = [r \in Requests |-> NoTurn]
    /\ exc = [r \in Requests |-> "none"]
    /\ HttpInit

\* yield make_sse_event(key, value)
MakeSseEvent(r) ==
    /\ pc[r] = "make_sse_event"
    /\ \E key \in FrameKeys : Yield(r, make_sse_event(key, chunks[r][1]))
    /\ pc' = [pc EXCEPT ![r] = "done"]
    /\ UNCHANGED <<dbVars, clientVars, pulled, session, dialogue_turns, messages, chunks,
                   last_function_call, events, new_turn, exc>>
    /\ UNCHANGED httpVars

FrameNext == \E r \in Requests : MakeSseEvent(r)

SpecFrame == FrameInit /\ [][FrameNext]_vars

(***************************************************************************)
(* C16  make_sse_event keeps the frame self-delimiting                     *)
(***************************************************************************)
\* Where a consumer finds the end of the frame that starts a text.
FrameEnd(f) ==
    LET closes == {i \in 4..Len(f) : f[i] = "</value></event>"}
    IN  CHOOSE i \in closes : \A j \in closes : i <= j

\* C16: the output of make_sse_event is exactly one frame (its first closing
\* tag is its end), and its payload determines the value: no other value
\* gives the same frame for the same key.
C16_FrameSelfDelimiting ==
    \A r \in Requests :
        (pc[r] = "done" /\ frames[r] # <<>>) =>
            LET f == frames[r][1]
                value == chunks[r][1]
            IN  /\ FrameEnd(f) = Len(f)
                /\ \A other \in FrameValues :
                      make_sse_event(f[2], other) = f => other = value

(***************************************************************************)
(* C17  Framing of end_ok                                                  *)
(***************************************************************************)
\* C17: the last frame of a streamed turn that completed is the event frame
\* make_sse_event("event", "end_ok"), framed like every other frame.
C17_EndOkIsFramed ==
    \A r \in Requests :
        (Streamed(r) /\ pc[r] = "done" /\ ~EndedError(r)) =>
            /\ frames[r][Len(frames[r])] = make_sse_event("event", <<"end_ok">>)
            /\ \A i \in 1..Len(frames[r]) :
                  \E key \in {"session_uuid", "data", "event"} : IsFrame(frames[r][i], key)

(***************************************************************************)
(* C18  A failed agent run in blocking mode                                *)
(***************************************************************************)
\* post_turn was left by the exception of Runner.run: the user message is the
\* last one, no response was appended.
AgentRunFailed(r) ==
    /\ mode[r] = "post_turn" /\ pc[r] = "raised"
    /\ messages[r] # <<>>
    /\ messages[r][Len(messages[r])].role = "user"

\* C18: when the agent run fails, post_turn fails with a ServiceError (or its
\* subclass LLMError), which the application renders as 503, after a single
\* run of the agent and without storing a turn.
C18_AgentFailureIsServiceError ==
    \A r \in Requests :
        AgentRunFailed(r) =>
            /\ isinstance(exc[r], "ServiceError")
            /\ status_code(exc[r]) = 503
            /\ new_turn[r] = NoTurn

(***************************************************************************)
(* C19  Events the loop does not know                                      *)
(***************************************************************************)
\* Event types the loop has no branch for, or a branch that only passes.
Irrelevant(chunk) ==
    \/ chunk.type # "raw_response_event"
    \/ chunk.data_type \notin {"response.output_text.delta",
                               "response.output_item.added",
                               "response.function_call_arguments.done",
                               "response.web_search_call.searching"}
    \/ /\ chunk.data_type = "response.output_item.added"
       /\ chunk.item_type # "function_call"

Relevant(evs) == SelectSeq(evs, LAMBDA chunk : ~Irrelevant(chunk))

\* The loop run over a whole sequence of events: the data frames yielded, the
\* transcript accumulated and the tool name cached at its end.
RECURSIVE Replay(_, _)
Replay(evs, st) ==
    IF evs = <<>> THEN st
    ELSE LET c == classify(Head(evs), st.last_function_call)
         IN  Replay(Tail(evs),
                    [frames |-> IF c.emitted
                                THEN Append(st.frames, make_sse_event("data", c.item))
                                ELSE st.frames,
                     chunks |-> IF c.emitted THEN Append(st.chunks, c.item) ELSE st.chunks,
                     last_function_call |-> c.last_function_call])

LoopStart == [frames |-> <<>>, chunks |-> <<>>, last_function_call |-> "Unknown"]

\* The frames of a stream between the session_uuid frame and its end.
DataFrames(r) == SelectSeq(Tail(frames[r]), LAMBDA f : ~IsEndOk(f))

\* C19: an event of an irrelevant type yields no frame, appends nothing to the
\* transcript, leaves the cached tool name and does not end the loop; so the
\* frames, the transcript and the cached name of a stream are those of the
\* same event sequence with the irrelevant events removed.
C19_IrrelevantEventsDropped ==
    /\ [](\A r \in Requests :
            (Streamed(r) /\ frames[r] # <<>> /\ ~EndedError(r)) =>
                LET without == Replay(Relevant(events[r]), LoopStart)
                IN  /\ DataFrames(r) = without.frames
                    /\ chunks[r] = without.chunks
                    /\ last_function_call[r] = without.last_function_call)
    /\ [][\A r \in Requests :
            (/\ Len(events'[r]) = Len(events[r]) + 1
             /\ Irrelevant(events'[r][Len(events'[r])])) =>
                /\ frames'[r] = frames[r]
                /\ chunks'[r] = chunks[r]
                /\ last_function_call'[r] = last_function_call[r]
                /\ pc'[r] = "stream" /\ exc'[r] = exc[r]]_vars

\* An irrelevant event came first, then one that is streamed.
C19_Witness ==
    \E r \in Requests :
        /\ Streamed(r) /\ pc[r] = "stream"
        /\ Len(events[r]) = 2
        /\ Irrelevant(events[r][1]) /\ ~Irrelevant(events[r][2])
        /\ Len(frames[r]) = 2

(***************************************************************************)
(* C20  Tool announcements                                                 *)
(***************************************************************************)
\* The start of a tool invocation.
ToolStart(chunk) ==
    /\ chunk.type = "raw_response_event"
    /\ chunk.data_type = "response.output_item.added"
    /\ chunk.item_type = "function_call"

\* C20: every start of a tool invocation yields exactly one data frame and
\* caches the tool's name, whatever the name: while the loop runs a stream has
\* the session_uuid frame and one data frame per relevant event, and when the
\* last event pulled is the start of a tool invocation the cached name is that
\* tool's name and the last frame is a data frame announcing it.
C20_ToolStartAnnounced ==
    \A r \in Requests :
        (Streamed(r) /\ pc[r] = "stream") =>
            /\ Len(frames[r]) = 1 + Len(Relevant(events[r]))
            /\ (events[r] # <<>> /\ ToolStart(events[r][Len(events[r])])) =>
                  /\ last_function_call[r] = events[r][Len(events[r])].item_name
                  /\ IsFrame(frames[r][Len(frames[r])], "data")
                  /\ Payload(frames[r][Len(frames[r])])[1] \in
                        {"<tool>Searching ClinicalTrials.gov for studies...</tool>",
                         "<tool>Fetching a study from ClinicalTrials.gov...</tool>",
                         "<tool>Searching locations...</tool>",
                         "<tool>Using a tool...</tool>"}

(***************************************************************************)
(* C24  Order of the frames                                                *)
(***************************************************************************)
\* Events the loop yields a data frame for.
Producing(chunk) ==
    /\ chunk.type = "raw_response_event"
    /\ \/ chunk.data_type \in {"response.output_text.delta",
                               "response.function_call_arguments.done",
                               "response.web_search_call.searching"}
       \/ /\ ToolStart(chunk)
          /\ chunk.item_name \in {"list_studies", "fetch_study", "search_places"}

IsPrefix(a, b) == Len(a) <= Len(b) /\ SubSeq(b, 1, Len(a)) = a

\* C24: the data frames of a stream are in the order of the upstream events
\* that produced them, one frame per producing event, and the transcript has
\* its chunks in that order: the i-th data frame frames the i-th chunk, which
\* comes from the i-th producing event; frames already yielded are never
\* moved, merged or dropped.
C24_FramesInEventOrder ==
    /\ [](\A r \in Requests :
            (Streamed(r) /\ frames[r] # <<>> /\ ~EndedError(r)) =>
                LET producers == SelectSeq(events[r], Producing)
                IN  /\ Len(DataFrames(r)) = Len(producers)
                    /\ Len(chunks[r]) = Len(producers)
                    /\ \A i \in 1..Len(producers) :
                          /\ DataFrames(r)[i] = make_sse_event("data", chunks[r][i])
                          /\ chunks[r][i] =
                                 classify(producers[i],
                                          Replay(SubSeq(producers, 1, i - 1),
                                                 LoopStart).last_function_call).item
                          /\ producers[i].data_type = "response.output_text.delta" =>
                                 chunks[r][i] = producers[i].payload)
    /\ [][\A r \in Requests :
            pc'[r] # "idle" =>
                /\ IsPrefix(frames[r], frames'[r])
                /\ IsPrefix(chunks[r], chunks'[r])
                /\ IsPrefix(events[r], events'[r])
                /\ Len(events'[r]) = Len(events[r]) + 1 =>
                      Len(frames'[r]) <= Len(frames[r]) + 1]_vars

\* A tool announcement followed by a text delta, then end_ok.
C24_Witness ==
    \E r \in Requests :
        /\ Streamed(r) /\ EndedOk(r)
        /\ Len(events[r]) = 2
        /\ ToolStart(events[r][1])
        /\ events[r][2].data_type = "response.output_text.delta"
        /\ Len(frames[r]) = 4

(***************************************************************************)
(* C25  The tool named by a tool-call-detail frame                         *)
(***************************************************************************)
\* The name of the tool invocation started last in a sequence of events.
RECURSIVE LastStarted(_)
LastStarted(evs) ==
    IF evs = <<>> THEN "Unknown"
    ELSE IF ToolStart(evs[Len(evs)]) THEN evs[Len(evs)].item_name
    ELSE LastStarted(SubSeq(evs, 1, Len(evs) - 1))

\* C25: the tool-call-detail frame yielded when the arguments of a tool call
\* are complete names the tool invocation started last in the stream, whatever
\* its name.
C25_DetailNamesLastStarted ==
    \A r \in Requests :
        (/\ Streamed(r) /\ pc[r] = "stream" /\ events[r] # <<>>
         /\ events[r][Len(events[r])].data_type = "response.function_call_arguments.done") =>
            /\ IsFrame(frames[r][Len(frames[r])], "data")
            /\ Payload(frames[r][Len(frames[r])]) =
                   <<"<tool_details>", LastStarted(events[r]), "(">>
                   \o events[r][Len(events[r])].payload
                   \o <<")", "</tool_details>">>

(***************************************************************************)
(* C26  Two turns racing on one session                                    *)
(***************************************************************************)
\* Stored turns of the same session built on the same head as turn t.
Siblings(t) ==
    {u \in TurnsOf(turns[t].session_id) \ {t} :
        turns[u].previous_turn_id = turns[t].previous_turn_id}

\* C26: two turns whose requests both resolved the session before either
\* committed both commit, with the same previous_turn_id; the commit of the
\* second succeeds, makes its turn the head and leaves the first out of the
\* chain of the head, so that every history read afterwards is shorter than
\* the number of turns stored for the session.
C26_RaceMakesSibling ==
    /\ [](\A sid \in DOMAIN sessions :
            ~NoFork(sid) =>
                /\ sessions[sid].head_turn_id \in TurnsOf(sid)
                /\ \A dts \in get_dialogue_turns(sessions[sid].head_turn_id) :
                      /\ Len(dts) < Cardinality(TurnsOf(sid))
                      /\ \A t \in Range(dts) : Siblings(t) \cap Range(dts) = {})
    /\ [][\A r \in Requests :
            (/\ Commits(r)
             /\ \E t \in TurnsOf(session[r].id) :
                   turns[t].previous_turn_id = new_turn[r].previous_turn_id) =>
                /\ sessions'[session[r].id].head_turn_id = new_turn[r].id
                /\ \A t \in TurnsOf(session[r].id) :
                      turns[t].previous_turn_id = new_turn[r].previous_turn_id =>
                          /\ t \in DOMAIN turns'
                          /\ \A dts \in get_dialogue_turns(new_turn[r].id)' :
                                t \notin Range(dts)]_vars

\* Both turns of a race are stored; the head is the second one.
C26_Witness ==
    \E sid \in DOMAIN sessions :
        \E t \in TurnsOf(sid) :
            /\ Siblings(t) # {}
            /\ sessions[sid].head_turn_id = t
            /\ \A u \in Siblings(t) : u < t

(***************************************************************************)
(* C28  A failed agent run stores nothing                                  *)
(***************************************************************************)
\* C28: in blocking mode add_turn is reached only after Runner.run returned:
\* when it raises, post_turn constructs no turn and the step changes no stored
\* turn and no head; the session a request without token created stays
\* stored, with NULL head and an empty history.
C28_FailedRunStoresNothing ==
    /\ [](\A r \in Requests :
            /\ AgentRunFailed(r) =>
                  /\ exc[r] = agent_failure
                  /\ new_turn[r] = NoTurn
                  /\ session[r].id \in DOMAIN sessions
                  /\ token[r] = NoToken =>
                        /\ sessions[session[r].id].head_turn_id = NULL
                        /\ TurnsOf(session[r].id) = {}
                        /\ get_dialogue_turns(sessions[session[r].id].head_turn_id) = {<<>>}
            /\ (mode[r] = "post_turn" /\ pc[r] \in {"add_turn", "commit"}) =>
                  messages[r][Len(messages[r])].role = "assistant")
    /\ [][\A r \in Requests :
            (mode[r] = "post_turn" /\ pc[r] = "run" /\ pc'[r] # "add_turn") =>
                /\ pc'[r] \in {"run", "raised"}
                /\ turns' = turns \/ pc'[r] = "run"
                /\ sessions' = sessions \/ pc'[r] = "run"]_vars

\* The run failed for a request that created its session.
C28_Witness ==
    \E r \in Requests :
        /\ AgentRunFailed(r)
        /\ token[r] = NoToken
        /\ session[r].id \in DOMAIN sessions

MaxRequests == 3
MaxNow == 3
\* Settings, scaled down.
rate_limit_period_seconds == 2
global_rate_limit_requests == 2
correlation_id_rate_limit_requests == 1

\* URL paths as sequences of their pieces: "/" and the segments between.
RootPath == <<"/">>
HealthPath == <<"/", "api", "/", "health">>
DocsPath == <<"/", "docs">>
OpenapiPath == <<"/", "openapi.json">>
FaviconPath == <<"/", "favicon.ico">>
ProtectedPath == <<"/", "protected">>
SessionsPath == <<"/", "api", "/", "v1", "/", "sessions", "/">>
RequestPaths == {HealthPath, ProtectedPath, SessionsPath}

\* str.startswith
startswith(s, prefix) == Len(prefix) <= Len(s) /\ SubSeq(s, 1, Len(prefix)) = prefix

exempt_paths == <<HealthPath, DocsPath, OpenapiPath, RootPath, FaviconPath>>
\* any(request.url.path.startswith(path) for path in exempt_paths)
exempt(path) == \E i \in DOMAIN exempt_paths : startswith(path, exempt_paths[i])

\* Python's None; no header value and no client host of the model equals it.
None == "None"
\* Strings uuid.UUID accepts, and the values a client may send as X-Correlation-ID.
Uuids == {"11111111-1111-4111-8111-111111111111", "22222222-2222-4222-8222-222222222222"}
HeaderValues == {None, "", "not-a-uuid"} \union Uuids
\* request.client.host, None when the server gives no client address.
ClientHosts == {None, "10.0.0.1"}

\* request.headers.get(name)
get(headers, name) == IF name \in DOMAIN headers THEN headers[name] ELSE None
Headers(value) == IF value = None THEN <<>> ELSE ("X-Correlation-ID" :> value)

\* RateLimitMiddleware._is_rate_limited: the verdict and the dictionary it
\* leaves behind.
is_rate_limited(key, t, rate_limit_data, limit) ==
    LET kept == {k \in DOMAIN rate_limit_data :
                    ~(t - rate_limit_data[k].timestamp > rate_limit_period_seconds)}
        cleaned == [k \in kept |-> rate_limit_data[k]]
        first == [count |-> 1, timestamp |-> t]
    IN  IF key \notin kept
        THEN [limited |-> FALSE, data |-> (key :> first) @@ cleaned]
        ELSE IF t - cleaned[key].timestamp > rate_limit_period_seconds
        THEN [limited |-> FALSE, data |-> (key :> first) @@ cleaned]
        ELSE LET count == cleaned[key].count + 1
             IN  [limited |-> count > limit,
                  data |-> (key :> [count |-> count, timestamp |-> cleaned[key].timestamp])
                           @@ cleaned]

max(a, b) == IF a >= b THEN a ELSE b

\* RateLimitMiddleware._create_rate_limit_response (the clock counts whole
\* seconds, so int() has nothing to cut off)
create_rate_limit_response(timestamp, t, period, message) ==
    [status_code |-> 429,
     content |-> [detail |-> message],
     headers |-> ("Retry-After" :> ToString(max(1, period - (t - timestamp))))]

\* A client sends a request; the outermost middleware gets it first.  Requests
\* are taken one after the other: no middleware keeps, across its await of
\* call_next, anything another request could change.
Receive(r) ==
    /\ \A q \in Requests : pc[q] = "idle"
    /\ request_seq < MaxRequests
    /\ request_seq' = request_seq + 1
    /\ \E path \in RequestPaths, value \in HeaderValues, host \in ClientHosts :
          request' = [request EXCEPT ![r] =
                         [id |-> request_seq', path |-> path, headers |-> Headers(value),
                          client |-> host, state |-> <<>>]]
    /\ response' = [response EXCEPT ![r] = NoResponse]
    /\ pc' = [pc EXCEPT ![r] = "RateLimitMiddleware"]
    /\ UNCHANGED <<agentVars, exc, handled, now, global_rate_limit_data,
                   correlation_id_rate_limit_data>>

\* time.time() moves on, between requests: a request is served within one
\* reading of the clock.
Tick ==
    /\ \A q \in Requests : pc[q] = "idle"
    /\ now < MaxNow
    /\ now' = now + 1
    /\ UNCHANGED <<agentVars, pc, exc, request, response, request_seq, handled,
                   global_rate_limit_data, correlation_id_rate_limit_data>>

\* RateLimitMiddleware.dispatch, up to call_next or the 429 response
RateLimitDispatch(r) ==
    /\ pc[r] = "RateLimitMiddleware"
    /\ IF exempt(request[r].path)
       THEN /\ pc' = [pc EXCEPT ![r] = "CorrelationIdMiddleware"]
            /\ UNCHANGED <<response, global_rate_limit_data, correlation_id_rate_limit_data>>
       ELSE LET client_ip == IF request[r].client # None THEN request[r].client ELSE "unknown"
                ip == is_rate_limited(client_ip, now, global_rate_limit_data,
                                      global_rate_limit_requests)
            IN  /\ global_rate_limit_data' = ip.data
                /\ IF ip.limited
                   THEN /\ response' = [response EXCEPT ![r] =
                               create_rate_limit_response(
                                   ip.data[client_ip].timestamp, now,
                                   rate_limit_period_seconds, "Global rate limit exceeded")]
                        /\ pc' = [pc EXCEPT ![r] = "responded"]
                        /\ UNCHANGED correlation_id_rate_limit_data
                   ELSE IF "correlation_id" \in DOMAIN request[r].state
                   THEN LET state_id == request[r].state.correlation_id
                            id == is_rate_limited(state_id, now,
                                                  correlation_id_rate_limit_data,
                                                  correlation_id_rate_limit_requests)
                        IN  /\ correlation_id_rate_limit_data' = id.data
                            /\ IF id.limited
                               THEN /\ response' = [response EXCEPT ![r] =
                                           create_rate_limit_response(
                                               id.data[state_id].timestamp, now,
                                               rate_limit_period_seconds,
                                               "Correlation ID rate limit exceeded")]
                                    /\ pc' = [pc EXCEPT ![r] = "responded"]
                               ELSE /\ pc' = [pc EXCEPT ![r] = "CorrelationIdMiddleware"]
                                    /\ UNCHANGED response
                   ELSE /\ pc' = [pc EXCEPT ![r] = "CorrelationIdMiddleware"]
                        /\ UNCHANGED <<response, correlation_id_rate_limit_data>>
    /\ UNCHANGED <<agentVars, exc, request, request_seq, handled, now>>

\* CorrelationIdMiddleware.dispatch, up to call_next or the 400 response
\* (RequestProcessingTimeMiddleware, between the two, only adds X-Process-Time)
CorrelationIdDispatch(r) ==
    /\ pc[r] = "CorrelationIdMiddleware"
    /\ IF exempt(request[r].path)
       THEN \* correlation_id = str(uuid.uuid4())
            /\ \E generated \in Uuids :
                  request' = [request EXCEPT ![r].state = ("correlation_id" :> generated)]
            /\ pc' = [pc EXCEPT ![r] = "call_next"]
            /\ UNCHANGED response
       ELSE LET header == get(request[r].headers, "X-Correlation-ID")
            IN  IF header = None \/ header = ""
                THEN /\ response' = [response EXCEPT ![r] =
                            [status_code |-> 400,
                             content |-> [detail |-> "X-Correlation-ID header is required"],
                             headers |-> <<>>]]
                     /\ pc' = [pc EXCEPT ![r] = "responded"]
                     /\ UNCHANGED request
                ELSE IF header \notin Uuids
                THEN /\ response' = [response EXCEPT ![r] =
                            [status_code |-> 400,
                             content |-> [detail |-> "X-Correlation-ID must be a valid UUID"],
                             headers |-> <<>>]]
                     /\ pc' = [pc EXCEPT ![r] = "responded"]
                     /\ UNCHANGED request
                ELSE /\ request' = [request EXCEPT ![r].state =
                                       ("correlation_id" :> header)]
                     /\ pc' = [pc EXCEPT ![r] = "call_next"]
                     /\ UNCHANGED response
    /\ UNCHANGED <<agentVars, exc, request_seq, handled, now, global_rate_limit_data,
                   correlation_id_rate_limit_data>>

\* call_next(request) reaches the route handler, which answers with the
\* correlation id it finds on request.state.
RouteHandler(r) ==
    /\ pc[r] = "call_next"
    /\ handled' = Append(handled, [id |-> request[r].id, client |-> request[r].client,
                                   path |-> request[r].path, now |-> now])
    /\ response' = [response EXCEPT ![r] =
                       [status_code |-> 200,
                        content |-> [correlation_id |-> request[r].state.correlation_id],
                        headers |-> <<>>]]
    /\ pc' = [pc EXCEPT ![r] = "set_header"]
    /\ UNCHANGED <<agentVars, exc, request, request_seq, now, global_rate_limit_data,
                   correlation_id_rate_limit_data>>

\* response.headers["X-Correlation-ID"] = correlation_id; return response
SetCorrelationIdHeader(r) ==
    /\ pc[r] = "set_header"
    /\ response' = [response EXCEPT ![r].headers =
                       ("X-Correlation-ID" :> request[r].state.correlation_id) @@ @]
    /\ pc' = [pc EXCEPT ![r] = "responded"]
    /\ UNCHANGED <<agentVars, exc, request, request_seq, handled, now, global_rate_limit_data,
                   correlation_id_rate_limit_data>>

\* The response has been sent; the client may send its next request.
Respond(r) ==
    /\ pc[r] = "responded"
    /\ pc' = [pc EXCEPT ![r] = "idle"]
    /\ request' = [request EXCEPT ![r] = NoRequest]
    /\ response' = [response EXCEPT ![r] = NoResponse]
    /\ UNCHANGED <<agentVars, exc, request_seq, handled, now, global_rate_limit_data,
                   correlation_id_rate_limit_data>>

MiddlewareNext ==
    \/ Tick
    \/ \E r \in Requests :
        \/ Receive(r)
        \/ RateLimitDispatch(r)
        \/ CorrelationIdDispatch(r)
        \/ RouteHandler(r)
        \/ SetCorrelationIdHeader(r)
        \/ Respond(r)

SpecMiddleware == Init /\ [][MiddlewareNext]_vars

(***************************************************************************)
(* C21  CorrelationIdMiddleware rejects a missing or invalid header        *)
(***************************************************************************)
\* The X-Correlation-ID header of request r is missing or no valid UUID.
BadCorrelationId(r) == get(request[r].headers, "X-Correlation-ID") \notin Uuids

\* The route handler has been invoked for the request r has in flight.
Handled(r) == \E i \in DOMAIN handled : handled[i].id = request[r].id

\* C21: a request to /protected whose X-Correlation-ID header is missing or is
\* not a valid UUID never reaches the route handler and, unless the rate
\* limiter has answered it before, is answered 400 with the detail that names
\* what is wrong with the header.
C21_BadCorrelationIdRejected ==
    \A r \in Requests :
        (request[r].path = ProtectedPath /\ BadCorrelationId(r)) =>
            /\ ~Handled(r)
            /\ (pc[r] = "responded" /\ response[r].status_code # 429) =>
                  /\ response[r].status_code = 400
                  /\ response[r].content.detail =
                         IF get(request[r].headers, "X-Correlation-ID") \in {None, ""}
                         THEN "X-Correlation-ID header is required"
                         ELSE "X-Correlation-ID must be a valid UUID"

(***************************************************************************)
(* C22  the X-Correlation-ID header of the response                        *)
(***************************************************************************)
\* C22: a response that was let through carries an X-Correlation-ID header
\* holding a valid UUID, the one the handler saw on request.state; for
\* /protected called with a valid X-Correlation-ID it is the client's value.
C22_CorrelationIdEchoed ==
    \A r \in Requests :
        (pc[r] = "responded" /\ Handled(r)) =>
            /\ "X-Correlation-ID" \in DOMAIN response[r].headers
            /\ response[r].headers["X-Correlation-ID"] \in Uuids
            /\ response[r].headers["X-Correlation-ID"] = response[r].content.correlation_id
            /\ (request[r].path = ProtectedPath /\ ~BadCorrelationId(r)) =>
                  response[r].headers["X-Correlation-ID"] =
                      request[r].headers["X-Correlation-ID"]

(***************************************************************************)
(* C30  RateLimitMiddleware: requests per client IP and window             *)
(***************************************************************************)
\* Requests of one client to /api/v1/sessions/ that reached the handler
\* within the window that starts with the first of them.
FirstWindow(host) ==
    LET mine == {i \in DOMAIN handled :
                    handled[i].client = host /\ handled[i].path = SessionsPath}
        start == CHOOSE i \in mine : \A j \in mine : i <= j
    IN  {i \in mine : handled[i].now - handled[start].now <= rate_limit_period_seconds}

\* C30: of the requests of one client IP to /api/v1/sessions/, at most
\* global_rate_limit_requests reach the handler within one window counted
\* from the first; a request answered 429 has not reached the handler and
\* carries Retry-After of at least 1.
C30_GlobalRateLimit ==
    /\ \A host \in ClientHosts :
          Cardinality(FirstWindow(host)) <= global_rate_limit_requests
    /\ \A r \in Requests :
          (pc[r] = "responded" /\ response[r].status_code = 429) =>
              /\ ~Handled(r)
              /\ \E n \in 1..rate_limit_period_seconds :
                    response[r].headers["Retry-After"] = ToString(n)

(***************************************************************************)
(* app/infrastructure/llm/client.py: ResponsesClient                       *)
(***************************************************************************)
ClientMethods == {"create_response", "search_clinical_trials"}

\* What awaiting self.client.responses.create may raise: errors of the openai
\* package, other errors, and the cancellation or interruption of the awaiting coroutine.
UpstreamErrors ==
    {"OpenAIError", "APIConnectionError", "Exception", "TimeoutError",
     "CancelledError", "KeyboardInterrupt"}

\* Building the pydantic result from a malformed response.
conversion_failure == "ValidationError"

\* An except clause list that knows the openai errors only.
except_clauses_openai_only(method, e) ==
    IF isinstance(e, "OpenAIError") THEN "LLMError" ELSE e

\* except OpenAIError as e: raise LLMError(...) from e
\* except Exception as e: raise LLMError(...) from e
\* What leaves the method when e is raised inside its try block.
except_clauses(method, e) ==
    IF isinstance(e, "OpenAIError") THEN "LLMError"
    ELSE IF isinstance(e, "Exception") THEN "LLMError"
    ELSE e

clientFrame ==
    <<sessions, turns, session_seq, turn_seq, pulled, known, overlapped, text, token,
      session, dialogue_turns, messages, chunks, last_function_call, events, frames,
      new_turn, httpVars>>

\* create_response / search_clinical_trials, up to the call of the API
ClientCall(r) ==
    /\ pc[r] = "idle"
    /\ \E method \in ClientMethods : mode' = [mode EXCEPT ![r] = method]
    /\ pc' = [pc EXCEPT ![r] = "responses.create"]
    /\ exc' = [exc EXCEPT ![r] = "none"]
    /\ UNCHANGED clientFrame

\* response = await self.client.responses.create(**params)
ResponsesCreate(r) ==
    /\ pc[r] = "responses.create"
    /\ \/ /\ pc' = [pc EXCEPT ![r] = "convert"]
          /\ UNCHANGED exc
       \/ \E e \in UpstreamErrors :
          /\ exc' = [exc EXCEPT ![r] = e]
          /\ pc' = [pc EXCEPT ![r] = "except"]
    /\ UNCHANGED <<clientFrame, mode>>

\* return ResponseModel(...) / ClinicalTrialSearchResults(...)
ClientConvert(r) ==
    /\ pc[r] = "convert"
    /\ \/ /\ pc' = [pc EXCEPT ![r] = "returned"]
          /\ UNCHANGED exc
       \/ /\ exc' = [exc EXCEPT ![r] = conversion_failure]
          /\ pc' = [pc EXCEPT ![r] = "except"]
    /\ UNCHANGED <<clientFrame, mode>>

\* The except clauses of the method decide what leaves it.
ClientExcept(r) ==
    /\ pc[r] = "except"
    /\ exc' = [exc EXCEPT ![r] = except_clauses(mode[r], exc[r])]
    /\ pc' = [pc EXCEPT ![r] = "raised"]
    /\ UNCHANGED <<clientFrame, mode>>

\* The caller has the result or the exception.
ClientDone(r) ==
    /\ pc[r] \in {"returned", "raised"}
    /\ pc' = [pc EXCEPT ![r] = "idle"]
    /\ exc' = [exc EXCEPT ![r] = "none"]
    /\ mode' = [mode EXCEPT ![r] = "none"]
    /\ UNCHANGED clientFrame

ClientNext ==
    \E r \in Requests :
        \/ ClientCall(r)
        \/ ResponsesCreate(r)
        \/ ClientConvert(r)
        \/ ClientExcept(r)
        \/ ClientDone(r)

SpecClient == Init /\ [][ClientNext]_vars

(***************************************************************************)
(* C23  ResponsesClient surfaces failures as LLMError                      *)
(***************************************************************************)
\* C23 as stated: whatever exception leaves create_response or
\* search_clinical_trials is an LLMError.
C23_OnlyLLMErrorEscapes ==
    \A r \in Requests : pc[r] = "raised" => exc[r] = "LLMError"

\* C23, amended: every failure inside the try block that is an Exception
\* (an error of the openai package, any other error of the call, a failed
\* conversion of the response) leaves the method as LLMError; what is no
\* Exception (a cancellation, KeyboardInterrupt) leaves it
\* unchanged, and nothing else ever leaves it.
C23_ExceptionsBecomeLLMError ==
    /\ [](\A r \in Requests :
            pc[r] = "raised" => (exc[r] = "LLMError" \/ ~isinstance(exc[r], "Exception")))
    /\ [][\A r \in Requests :
            (pc[r] = "except" /\ pc'[r] = "raised") =>
                exc'[r] = IF isinstance(exc[r], "Exception") THEN "LLMError" ELSE exc[r]]_vars

C23_Witness ==
    \E r, q \in Requests :
        /\ mode[r] = "create_response" /\ pc[r] = "raised" /\ exc[r] = "LLMError"
        /\ mode[q] = "search_clinical_trials" /\ pc[q] = "raised"
        /\ exc[q] = "CancelledError"

(***************************************************************************)
(* post_turn_streamed when the consumer goes away                          *)
(***************************************************************************)
\* What a closed stream throws into the generator: GeneratorExit at the yield
\* it is suspended on, CancelledError at the await it is waiting in.
DisconnectErrors == {"GeneratorExit", "CancelledError"}

\* A generator that saves what it has streamed so far when it is closed.
turns_after_disconnect_partial(r) ==
    turns @@ (turn_seq + 1 :> DialogueTurn(r, turn_seq + 1))

\* Rows of dialogue_turns after the generator was ended before add_turn
\* committed: add_turn follows the loop and nothing runs on the way out.
turns_after_disconnect(r) == turns

\* except Exception as e: does the clause of the streaming loop take e?
except_Exception(e) == isinstance(e, "Exception")

\* The consumer closes the stream or its task is cancelled while the
\* generator is suspended.  Inside the loop the except clause is asked first;
\* inside add_turn nothing catches.  A commit that is cancelled while it is
\* awaited has either not happened or happened as a whole.
Disconnect(r) ==
    /\ mode[r] = "post_turn_streamed"
    /\ \/ /\ At(r, "stream")
          /\ \E e \in DisconnectErrors :
                IF except_Exception(e)
                THEN /\ frames' = [frames EXCEPT ![r] = @ \o error_frames(<<>>)]
                     /\ exc' = [exc EXCEPT ![r] = <<>>]
                     /\ pc' = [pc EXCEPT ![r] = after_end_error]
                ELSE /\ exc' = [exc EXCEPT ![r] = e]
                     /\ pc' = [pc EXCEPT ![r] = "raised"]
                     /\ UNCHANGED frames
          /\ turns' = turns_after_disconnect(r)
          /\ UNCHANGED sessions
       \/ /\ At(r, "add_turn")
          /\ exc' = [exc EXCEPT ![r] = "CancelledError"]
          /\ pc' = [pc EXCEPT ![r] = "raised"]
          /\ turns' = turns_after_disconnect(r)
          /\ UNCHANGED <<frames, sessions>>
       \/ /\ At(r, "commit")
          /\ exc' = [exc EXCEPT ![r] = "CancelledError"]
          /\ pc' = [pc EXCEPT ![r] = "raised"]
          /\ \/ UNCHANGED <<turns, sessions>>
             \/ /\ turns' = turns @@ (new_turn[r].id :> new_turn[r])
                /\ sessions' = [sessions EXCEPT ![session[r].id].head_turn_id =
                                                    new_head_turn_id(new_turn[r])]
          /\ UNCHANGED frames
    /\ UNCHANGED <<session_seq, turn_seq, pulled, clientVars, session, dialogue_turns,
                   messages, chunks, last_function_call, events, new_turn, httpVars>>

DisconnectNext ==
    \/ Next
    \/ \E r \in Requests : Disconnect(r)

SpecDisconnect == Init /\ [][DisconnectNext]_vars

(***************************************************************************)
(* C27  a closed stream appends nothing                                    *)
(***************************************************************************)
\* The generator of request r was ended by the consumer going away.
Disconnected(r) == pc[r] = "raised" /\ exc[r] \in DisconnectErrors

\* C27 as stated: after the consumer has closed the stream before the
\* terminal frame, the turn of the request is not in the session's history.
C27_DisconnectAppendsNothing ==
    \A r \in Requests : Disconnected(r) => new_turn[r].id \notin DOMAIN turns

\* C27, amended: a disconnect ends the generator at once: no terminal frame,
\* no further frame, no further upstream event.  While the upstream loop is
\* running (and until add_turn awaits its commit) nothing is stored and the
\* head stays; a disconnect that cancels the awaited commit leaves either
\* nothing or the whole turn with the complete response as the new head,
\* never a partial one.
C27_DisconnectStoresNoPartialTurn ==
    /\ [](\A r \in Requests :
            Disconnected(r) =>
                /\ ~EndedOk(r)
                /\ ~EndedError(r)
                /\ new_turn[r].id \in DOMAIN turns =>
                      /\ turns[new_turn[r].id] = new_turn[r]
                      /\ new_turn[r].response_data.content = join(chunks[r]))
    /\ [][\A r \in Requests :
            (~Disconnected(r) /\ Disconnected(r)') =>
                /\ events'[r] = events[r]
                /\ pulled' = pulled
                /\ frames'[r] = frames[r]
                /\ chunks'[r] = chunks[r]
                /\ \/ /\ turns' = turns
                      /\ sessions' = sessions
                   \/ /\ pc[r] = "commit"
                      /\ turns' = turns @@ (new_turn[r].id :> new_turn[r])
                      /\ sessions' = [sessions EXCEPT ![session[r].id].head_turn_id =
                                                          new_turn[r].id]]_vars

C27_Witness ==
    \E r \in Requests :
        /\ Disconnected(r)
        /\ Len(events[r]) >= 1
        /\ Len(frames[r]) >= 2
        /\ new_turn[r] = NoTurn
====
